---- MODULE Spec2Model ----
(***************************************************************************)
(* Receipt ingestion pipeline of vision-api-app.                           *)
(*                                                                         *)
(* Spec      : concurrent invocations of ReceiptUseCase.ProcessReceiptImage *)
(*             against the response cache and the relational store         *)
(*             (BunReceiptRepository.Create runs in a transaction).        *)
(* SpecUpload: invocations one after the other, images without bytes       *)
(*             included; the history of the cache calls is kept.           *)
(* SpecFixed : as Spec, with a recognition capability that returns a fixed *)
(*             text per image.                                             *)
(* SpecParse : parseReceiptJSON applied to every decoded document within   *)
(*             the bounds.                                                 *)
(* SpecCat   : categorizeReceiptItems (with parseItemCategories) applied   *)
(*             to every classifier response within the bounds.             *)
(* SpecRepeat: invocations that may overlap, where the goroutine whose     *)
(*             last invocation is the older one submits next.              *)
(* SpecVision: VisionHandler.HandleReceiptAnalyze with the save it starts  *)
(*             in a goroutine (saveReceiptToDatabase, random UUIDs).       *)
(* SpecSummary: HouseholdUseCase.GetCategorySummary applied to every list  *)
(*             of receipts and expenses within the bounds.                 *)
(* SpecApp   : App.Run, its server goroutine and the signal channel.       *)
(***************************************************************************)
EXTENDS Integers, Sequences, FiniteSets, TLC

VARIABLES
    proc,          \* per request goroutine: position and locals of ProcessReceiptImage
    cache,         \* response cache: image -> raw text (<<>> = no entry)
    cacheRepoNil,  \* uc.cacheRepo == nil
    dbReceipts,    \* committed rows of table receipts
    dbItems,       \* committed rows of table receipt_items
    tx,            \* per goroutine: rows written by its open transaction
    calls,         \* number of invocations started so far
    returned,      \* history: <<image, receipt id, call>> of every receipt returned or saved
    pin,           \* SpecParse: the raw text handed to parseReceiptJSON
    pout,          \* SpecParse: what parseReceiptJSON returned
    cin,           \* SpecCat: the receipt and the classifier outcome handed to categorizeReceiptItems
    cout,          \* SpecCat: what categorizeReceiptItems returned and left in the receipt
    sin,           \* SpecSummary: what the two FindAll calls hand to GetCategorySummary
    sout,          \* SpecSummary: what GetCategorySummary returned
    app            \* SpecApp: App.Run, its server goroutine and the signal channel

vars == <<proc, cache, cacheRepoNil, dbReceipts, dbItems, tx, calls, returned, pin, pout, cin, cout,
          sin, sout, app>>

(***************************************************************************)
(* Bounds                                                                  *)
(***************************************************************************)
MaxCalls == 2      \* invocations of ProcessReceiptImage in one behaviour
MaxItems == 2      \* decoded items per document (SpecParse), items per receipt (SpecSummary)
MaxAmount == 2     \* largest price and total_amount of a document (SpecParse, SpecSummary)

Procs == {"g1", "g2"}
Images == {"imgA", "imgB"}
\* the image of an upload whose file part has no bytes
EmptyImage == ""
\* what io.ReadAll(file) may hand to ProcessReceiptImage
Uploads == Images \cup {EmptyImage}
\* the "Other" sentinel category (U+305D U+306E U+4ED6 in the source)
Other == "sonota"

(***************************************************************************)
(* Raw AI text.  A text is a sequence of tokens: the ```json fence, a bare *)
(* ``` fence, white space, prose, or one JSON object of the receipt shape. *)
(***************************************************************************)
NoDoc == [store_name |-> "", total_amount |-> 0, items |-> <<>>]

Tok(kind) == [t |-> kind, doc |-> NoDoc]

DocTok(d) == [t |-> "doc", doc |-> d]

Item(n, q, p) == [name |-> n, quantity |-> q, price |-> p]

\* position of the first token of one of the kinds, 0 when there is none (bytes.Index)
Index(s, kinds) ==
    IF \E i \in 1..Len(s) : s[i].t \in kinds
    THEN CHOOSE i \in 1..Len(s) : s[i].t \in kinds /\ \A j \in 1..(i-1) : s[j].t \notin kinds
    ELSE 0

RECURSIVE TrimLeft(_)
TrimLeft(s) == IF s # <<>> /\ Head(s).t = "ws" THEN TrimLeft(Tail(s)) ELSE s

RECURSIVE TrimRight(_)
TrimRight(s) ==
    IF s # <<>> /\ s[Len(s)].t = "ws" THEN TrimRight(SubSeq(s, 1, Len(s)-1)) ELSE s

TrimSpace(s) == TrimRight(TrimLeft(s))

\* tokens in which "```json" occurs
JsonFence == {"fence_json"}

\* tokens in which "```" occurs: it is a prefix of "```json"
AnyFence == {"fence", "fence_json"}

CleanJSON(text) ==
    LET idx == Index(text, JsonFence)
        rest == IF idx # 0 THEN SubSeq(text, idx+1, Len(text)) ELSE text
        idx2 == IF idx # 0 THEN Index(rest, AnyFence) ELSE 0
        cut == IF idx2 # 0 THEN SubSeq(rest, 1, idx2-1) ELSE rest
    IN TrimSpace(cut)

\* json.Unmarshal into receiptData: succeeds iff the bytes are one JSON object
Unmarshal(clean) ==
    IF Len(clean) = 1 /\ clean[1].t = "doc"
    THEN [ok |-> TRUE, data |-> clean[1].doc]
    ELSE [ok |-> FALSE, data |-> NoDoc]

\* receiptData after json.Unmarshal (zero values when it failed)
Decoded(text) == Unmarshal(CleanJSON(text)).data

(***************************************************************************)
(* Identity                                                                *)
(***************************************************************************)
\* sha256.Sum256, leading 16 bytes of the digest: collision free, one digest
\* per image content; the last one is the digest of the empty byte slice
Sha256(imageData) ==
    CASE imageData = "imgA" -> <<163, 241, 7, 200, 18, 52, 86, 120, 154, 188, 222, 240, 1, 35, 69, 103>>
      [] imageData = "imgB" -> <<7, 201, 94, 0, 171, 205, 239, 16, 50, 84, 118, 152, 186, 220, 254, 9>>
      [] OTHER -> <<227, 176, 196, 66, 152, 252, 28, 20, 154, 251, 244, 200, 153, 111, 185, 36>>

\* one key for every image
generateCacheKey_shared(prefix, data) == <<"vision", prefix, <<>>>>

\* fmt.Sprintf("vision:%s:%s", prefix, hex.EncodeToString(hash[:]))
generateCacheKey(prefix, data) == <<"vision", prefix, Sha256(data)>>

HexDigits == <<"0", "1", "2", "3", "4", "5", "6", "7", "8", "9", "a", "b", "c", "d", "e", "f">>

\* a byte below 16 is written with one digit
Hex_unpadded(b) ==
    IF b < 16 THEN <<HexDigits[b + 1]>> ELSE <<HexDigits[(b \div 16) + 1], HexDigits[(b % 16) + 1]>>

\* %x of one byte of a byte slice: two lowercase digits
Hex(b) == <<HexDigits[(b \div 16) + 1], HexDigits[(b % 16) + 1]>>

RECURSIVE HexEncode(_)
HexEncode(bytes) == IF bytes = <<>> THEN <<>> ELSE Hex(Head(bytes)) \o HexEncode(Tail(bytes))

\* fmt.Sprintf("%x-%x-%x-%x-%x", hash[0:4], hash[4:6], hash[6:8], hash[8:10], hash[10:16])
FormatUUID(hash) ==
    HexEncode(SubSeq(hash, 1, 4)) \o <<"-">> \o HexEncode(SubSeq(hash, 5, 6)) \o <<"-">>
        \o HexEncode(SubSeq(hash, 7, 8)) \o <<"-">> \o HexEncode(SubSeq(hash, 9, 10)) \o <<"-">>
        \o HexEncode(SubSeq(hash, 11, 16))

\* a fresh identifier per invocation instead of a function of the bytes
generateReceiptID_fresh(imageData) == [uuid |-> FormatUUID(Sha256(imageData)), nonce |-> calls]

\* the id is the text uuid; nonce is 0 in every id the code makes
generateReceiptID(imageData) == [uuid |-> FormatUUID(Sha256(imageData)), nonce |-> 0]

NoID == [uuid |-> <<>>, nonce |-> 0]

\* %d
RECURSIVE Digits(_)
Digits(n) == IF n < 10 THEN <<HexDigits[n + 1]>> ELSE Digits(n \div 10) \o <<HexDigits[(n % 10) + 1]>>

\* %0wd: zeros are added on the left up to width w, nothing is cut
RECURSIVE ZeroPad(_, _)
ZeroPad(s, w) == IF Len(s) >= w THEN s ELSE ZeroPad(<<"0">> \o s, w)

\* the whole receipt id is used as the prefix
ItemID_full(receiptID, i) ==
    [prefix |-> receiptID, index |-> i,
     text |-> receiptID.uuid \o <<"-">> \o ZeroPad(Digits(i), 8)]

\* fmt.Sprintf("%s-%08d", receiptID[:27], i); text is the id, prefix and index
\* are what it was made from
ItemID(receiptID, i) ==
    [prefix |-> receiptID, index |-> i,
     text |-> SubSeq(receiptID.uuid, 1, 27) \o <<"-">> \o ZeroPad(Digits(i), 8)]

(***************************************************************************)
(* parseReceiptJSON                                                        *)
(***************************************************************************)
NoReceipt == [ID |-> NoID, StoreName |-> "", TotalAmount |-> 0, Items |-> <<>>]

RECURSIVE SumItems(_)
SumItems(items) ==
    IF items = <<>> THEN 0
    ELSE Head(items).price * Head(items).quantity + SumItems(Tail(items))

\* the reported total is replaced whenever the computed sum is not zero
Reconcile_nonzero(reported, calculatedTotal) ==
    IF calculatedTotal # 0 THEN calculatedTotal ELSE reported

Reconcile(reported, calculatedTotal) ==
    IF calculatedTotal > 0 THEN calculatedTotal ELSE reported

\* every decoded item becomes an item of the receipt
Materialize_unfiltered(items, receiptID) ==
    [i \in 1..Len(items) |->
        [ID |-> ItemID(receiptID, i-1), ReceiptID |-> receiptID,
         Name |-> items[i].name, Quantity |-> items[i].quantity,
         Price |-> items[i].price, Category |-> ""]]

\* for i, item := range receiptData.Items { if item.Name != "" { append } }
Materialize(items, receiptID) ==
    LET all == [i \in 1..Len(items) |->
                  [ID |-> ItemID(receiptID, i-1), ReceiptID |-> receiptID,
                   Name |-> items[i].name, Quantity |-> items[i].quantity,
                   Price |-> items[i].price, Category |-> ""]]
        Named(it) == it.Name # ""
    IN SelectSeq(all, Named)

\* a text that does not decode yields an empty receipt instead of an error
parseReceiptJSON_partial(receiptJSON, receiptID) ==
    [ok |-> TRUE,
     receipt |-> [ID |-> receiptID,
                  StoreName |-> Decoded(receiptJSON).store_name,
                  TotalAmount |-> Reconcile(Decoded(receiptJSON).total_amount,
                                            SumItems(Decoded(receiptJSON).items)),
                  Items |-> Materialize(Decoded(receiptJSON).items, receiptID)]]

parseReceiptJSON(receiptJSON, receiptID) ==
    LET u == Unmarshal(CleanJSON(receiptJSON))
        d == u.data
    IN IF ~u.ok THEN [ok |-> FALSE, receipt |-> NoReceipt]
       ELSE [ok |-> TRUE,
             receipt |-> [ID |-> receiptID,
                          StoreName |-> d.store_name,
                          TotalAmount |-> Reconcile(d.total_amount, SumItems(d.items)),
                          Items |-> Materialize(d.items, receiptID)]]

(***************************************************************************)
(* Classification response.  shape is what the text is:                    *)
(*   "strarray"  JSON array of strings          ["a","b"]                  *)
(*   "objarray"  JSON array of objects          [{"item":..,"category":..}] *)
(*               cats[i] is the "category" member of the i-th object       *)
(*   "map"       JSON object of string values   {"1":"a","2":"b"}; key k    *)
(*               is present iff k \in keys, and maps to cats[k]            *)
(*   "catobj"    {"categories":[...]}                                      *)
(*   "lines"     lines of text; cats[i] is what follows the first '.' of   *)
(*               the i-th line, "" stands for a blank line                 *)
(*   "prose"     one line of text that is no JSON and has no '.'           *)
(* fence: the text is wrapped as ```json ... ```                           *)
(***************************************************************************)
Resp(shape, cats, keys) == [shape |-> shape, cats |-> cats, keys |-> keys, fence |-> FALSE]

Fenced(response) == [response EXCEPT !.fence = TRUE]

\* the whole response text, when it ends up being read as one plain line
RawText == "<raw response>"

\* the fence is left in the text
CleanResponse_keep(response) == response

\* what lies between ```json and the next ```, white space trimmed
CleanResponse(response) == [response EXCEPT !.fence = FALSE]

\* json.Unmarshal(cleanBytes, &categoriesArray)
UnmarshalStrings(clean) ==
    IF ~clean.fence /\ clean.shape = "strarray"
    THEN [ok |-> TRUE, v |-> clean.cats] ELSE [ok |-> FALSE, v |-> <<>>]

\* json.Unmarshal(cleanBytes, &itemObjects); "[]" decodes into no objects
UnmarshalObjects(clean) ==
    IF ~clean.fence /\ (clean.shape = "objarray" \/ (clean.shape = "strarray" /\ clean.cats = <<>>))
    THEN [ok |-> TRUE, v |-> clean.cats] ELSE [ok |-> FALSE, v |-> <<>>]

\* json.Unmarshal(cleanBytes, &categoriesMap): v is the set of keys present
UnmarshalMap(clean) ==
    IF ~clean.fence /\ clean.shape = "map"
    THEN [ok |-> TRUE, v |-> clean.keys] ELSE [ok |-> FALSE, v |-> {}]

\* json.Unmarshal(cleanBytes, &categoriesObj): an object without the
\* "categories" member decodes into no categories
UnmarshalCategories(clean) ==
    IF ~clean.fence /\ clean.shape \in {"catobj", "map"}
    THEN [ok |-> TRUE, v |-> IF clean.shape = "catobj" THEN clean.cats ELSE <<>>]
    ELSE [ok |-> FALSE, v |-> <<>>]

\* for i := 0; i < itemCount; i++ { if cat, ok := categoriesMap[i+1]; ok { append } }
RECURSIVE ProbeKeys(_, _, _)
ProbeKeys(resp, i, itemCount) ==
    IF i > itemCount THEN <<>>
    ELSE (IF i \in resp.keys THEN <<resp.cats[i]>> ELSE <<>>) \o ProbeKeys(resp, i+1, itemCount)

\* the non-blank lines, each cut after its first '.'; a text that is not
\* line shaped (JSON that matched nothing, prose, a fence) is one line
PlainLines(clean) ==
    LET NonBlank(c) == c # ""
    IN IF ~clean.fence /\ clean.shape = "lines" THEN SelectSeq(clean.cats, NonBlank)
       ELSE <<RawText>>

parseItemCategories(response, itemCount) ==
    LET clean == CleanResponse(response)
        categoriesArray == UnmarshalStrings(clean)
        itemObjects == UnmarshalObjects(clean)
        categoriesMap == UnmarshalMap(clean)
        numbered == ProbeKeys(clean, 1, itemCount)
        categoriesObj == UnmarshalCategories(clean)
        lines == PlainLines(clean)
    IN CASE categoriesArray.ok -> [ok |-> TRUE, cats |-> categoriesArray.v]
         [] ~categoriesArray.ok /\ itemObjects.ok /\ Len(itemObjects.v) > 0 ->
                [ok |-> TRUE, cats |-> itemObjects.v]
         [] ~categoriesArray.ok /\ categoriesMap.ok /\ categoriesMap.v # {} /\ Len(numbered) > 0 ->
                [ok |-> TRUE, cats |-> numbered]
         [] ~categoriesArray.ok /\ categoriesObj.ok /\ Len(categoriesObj.v) > 0 ->
                [ok |-> TRUE, cats |-> categoriesObj.v]
         [] OTHER -> IF Len(lines) > 0 THEN [ok |-> TRUE, cats |-> lines]
                     ELSE [ok |-> FALSE, cats |-> <<>>]

\* outcome of aiRepo.CategorizeReceipt: a provider error or a response text
CatErr == [err |-> TRUE, text |-> Resp("lines", <<>>, {})]

CatOk(resp) == [err |-> FALSE, text |-> resp]

\* a parsed category is assigned even when it is the empty string
SetCategories_verbatim(items, categories) ==
    [i \in 1..Len(items) |->
        [items[i] EXCEPT !.Category = IF i <= Len(categories) THEN categories[i] ELSE Other]]

\* for i := range receipt.Items { category or the Other sentinel }
SetCategories(items, categories) ==
    [i \in 1..Len(items) |->
        [items[i] EXCEPT !.Category =
            IF i <= Len(categories) /\ categories[i] # "" THEN categories[i] ELSE Other]]

\* returns the error flag, the receipt as left by the call, and whether the
\* classification capability was invoked
categorizeReceiptItems(receipt, outcome) ==
    IF Len(receipt.Items) = 0
    THEN [err |-> FALSE, receipt |-> receipt, called |-> FALSE]
    ELSE IF outcome.err
    THEN [err |-> TRUE, receipt |-> receipt, called |-> TRUE]
    ELSE LET parsed == parseItemCategories(outcome.text, Len(receipt.Items))
         IN IF ~parsed.ok
            THEN [err |-> TRUE, receipt |-> receipt, called |-> TRUE]
            ELSE [err |-> FALSE,
                  receipt |-> [receipt EXCEPT !.Items = SetCategories(@, parsed.cats)],
                  called |-> TRUE]

(***************************************************************************)
(* Persistent store: tables receipts and receipt_items.  Every row carries *)
(* the number of the invocation that wrote it, a receipt row also the      *)
(* image it was made from (history only).                                  *)
(***************************************************************************)
\* the primary key is not enforced
DuplicateKey_unenforced(rows, id) == FALSE

\* PRIMARY KEY (id): an insert is rejected when a row with that id exists
DuplicateKey(rows, id) == \E r \in rows : r.id = id

\* the bun models have no category column for items
toModel(receipt, image, call) ==
    [receipt |-> [id |-> receipt.ID, store_name |-> receipt.StoreName,
                  total_amount |-> receipt.TotalAmount, image |-> image, call |-> call],
     items |-> {[id |-> receipt.Items[i].ID, receipt_id |-> receipt.Items[i].ReceiptID,
                 name |-> receipt.Items[i].Name, quantity |-> receipt.Items[i].Quantity,
                 price |-> receipt.Items[i].Price, call |-> call]
                : i \in 1..Len(receipt.Items)}]

\* rows in primary-key order
RECURSIVE SortByID(_)
SortByID(rows) ==
    IF rows = {} THEN <<>>
    ELSE LET r == CHOOSE x \in rows : \A y \in rows : x.id.index <= y.id.index
         IN <<r>> \o SortByID(rows \ {r})

toEntity(row, itemRows) ==
    LET sorted == SortByID(itemRows)
    IN [ID |-> row.id, StoreName |-> row.store_name, TotalAmount |-> row.total_amount,
        Items |-> [i \in 1..Len(sorted) |->
                     [ID |-> sorted[i].id, ReceiptID |-> sorted[i].receipt_id,
                      Name |-> sorted[i].name, Quantity |-> sorted[i].quantity,
                      Price |-> sorted[i].price, Category |-> ""]]]

NoTx == [receipts |-> {}, items |-> {}]

(***************************************************************************)
(* What the external capabilities may answer                               *)
(***************************************************************************)
DocMilk == [store_name |-> "Lawson", total_amount |-> 9,
            items |-> <<Item("milk", 2, 3)>>]

DocGhost == [store_name |-> "Lawson", total_amount |-> 9,
             items |-> <<Item("milk", 1, 3), Item("", 1, 2)>>]

DocNoItems == [store_name |-> "", total_amount |-> 7, items |-> <<>>]

\* raw texts RecognizeReceipt may return (CorrectedText) for an image: imgA
\* shows a receipt with one product, imgB one without product lines; the
\* model reads each either into JSON or into something that is not JSON
RecognizeTexts(imageData) ==
    IF imageData = "imgA"
    THEN { <<DocTok(DocMilk)>>,
           <<Tok("prose"), Tok("fence_json"), Tok("ws"), DocTok(DocGhost), Tok("ws"), Tok("fence")>>,
           <<Tok("prose")>> }
    ELSE IF imageData = "imgB"
    THEN { <<DocTok(DocNoItems)>>, <<>> }
    ELSE { <<Tok("prose")>> }

\* a recognition capability that returns one fixed text per image
FixedText(imageData) ==
    CASE imageData = "imgA" -> <<DocTok(DocMilk)>>
      [] imageData = "imgB" ->
            <<Tok("prose"), Tok("fence_json"), Tok("ws"), DocTok(DocGhost), Tok("ws"), Tok("fence")>>
      [] OTHER -> <<Tok("prose")>>

\* outcomes of CategorizeReceipt
CategorizeOutcomes ==
    { CatErr,
      CatOk(Resp("lines", <<>>, {})),
      CatOk(Resp("strarray", <<>>, {})),
      CatOk(Resp("strarray", <<"shokuhi">>, {})),
      CatOk(Resp("prose", <<>>, {})) }

(***************************************************************************)
(* ProcessReceiptImage, one action per external call                       *)
(***************************************************************************)
IdleProc ==
    [pc |-> "idle", imageData |-> "", call |-> 0, receiptJSON |-> <<>>,
     receiptID |-> NoID, receipt |-> NoReceipt,
     status |-> "none",      \* "ok" / "err": what the invocation returned
     errAt |-> "",           \* the step whose error was returned
     existing |-> FALSE,     \* the receipt returned was read from the store
     lookup |-> "none",      \* FindByID: "hit", "miss" or "error"
     dupKey |-> FALSE,       \* Create was rejected for a duplicate primary key
     recognized |-> 0,       \* calls of RecognizeReceipt
     parsed |-> 0,           \* calls of parseReceiptJSON
     categorized |-> 0,      \* calls of CategorizeReceipt
     created |-> 0,          \* calls of Create
     catErr |-> FALSE,       \* categorizeReceiptItems returned an error
     catOutcome |-> "none",  \* "skipped", "providerError", "noCategory", "unparseable", "categories"
     cacheGot |-> "none",    \* cache lookup: "nil" (no repository), "error", "empty" or "hit"
     cacheSet |-> "none",    \* cacheRepo.Set: "stored" or "failed"
     setTTL |-> 0,           \* expiry handed to cacheRepo.Set, in hours
     response |-> "none"]    \* HandleReceiptAnalyze: "badRequest", "HIT", "MISS" or "error"

CacheKeys == {generateCacheKey("receipt", i) : i \in Uploads}

\* 24*time.Hour
CacheTTL == 24

CreateSteps == {"insertReceipt", "insertItems", "commit"}

\* return nil, fmt.Errorf(...)
Fail(p, step) ==
    [proc EXCEPT ![p].pc = "done", ![p].status = "err", ![p].errAt = step,
                 ![p].receipt = NoReceipt]

\* a request arrives at a goroutine that is not inside an invocation
Submit(p, images) ==
    /\ proc[p].pc \in {"idle", "done"}
    /\ calls < MaxCalls
    /\ \E img \in images :
          proc' = [proc EXCEPT ![p] = [IdleProc EXCEPT !.pc = "cacheGet",
                                                       !.imageData = img,
                                                       !.call = calls + 1]]
    /\ calls' = calls + 1
    /\ UNCHANGED <<cache, cacheRepoNil, dbReceipts, dbItems, tx, returned, pin, pout, cin, cout, sin, sout, app>>

\* the recognition capability is called whatever the cache returned
AfterCacheGet_always(p, got, text) ==
    [proc EXCEPT ![p].receiptJSON = text, ![p].cacheGot = got, ![p].pc = "recognize"]

\* if receiptJSON == "" { ... RecognizeReceipt ... }
AfterCacheGet(p, got, text) ==
    [proc EXCEPT ![p].receiptJSON = text, ![p].cacheGot = got,
                 ![p].pc = IF text = <<>> THEN "recognize" ELSE "findByID"]

\* hist: whether the history of the cache calls is kept in cacheGot and cacheSet
CacheGet(p, hist) ==
    /\ proc[p].pc = "cacheGet"
    /\ \E getErr \in (IF cacheRepoNil THEN {FALSE} ELSE BOOLEAN) :
          LET cached == cache[generateCacheKey("receipt", proc[p].imageData)]
              got == IF cacheRepoNil THEN "nil"
                     ELSE IF getErr THEN "error"
                     ELSE IF Len(cached) = 0 THEN "empty" ELSE "hit"
              text == IF ~cacheRepoNil /\ ~getErr /\ Len(cached) > 0 THEN cached ELSE <<>>
          IN proc' = AfterCacheGet(p, IF hist THEN got ELSE "none", text)
    /\ UNCHANGED <<cache, cacheRepoNil, dbReceipts, dbItems, tx, calls, returned, pin, pout, cin, cout, sin, sout, app>>

\* a failed recognition is tried again
RecognizeFailed_retry(p) == [proc EXCEPT ![p].recognized = @ + 1]

\* return nil, fmt.Errorf("failed to recognize receipt: %w", err)
RecognizeFailed(p) == [Fail(p, "recognize") EXCEPT ![p].recognized = @ + 1]

\* fixed: the capability always answers, with FixedText
Recognize(p, fixed) ==
    /\ proc[p].pc = "recognize"
    /\ \/ ~fixed /\ proc' = RecognizeFailed(p)
       \/ \E text \in (IF fixed THEN {FixedText(proc[p].imageData)}
                        ELSE RecognizeTexts(proc[p].imageData)) :
             proc' = [proc EXCEPT ![p].receiptJSON = text,
                                  ![p].recognized = @ + 1,
                                  ![p].pc = IF cacheRepoNil THEN "findByID" ELSE "cacheSet"]
    /\ UNCHANGED <<cache, cacheRepoNil, dbReceipts, dbItems, tx, calls, returned, pin, pout, cin, cout, sin, sout, app>>

\* only a text that decodes is put into the cache
CachedText_decoded(receiptJSON) ==
    IF Unmarshal(CleanJSON(receiptJSON)).ok THEN receiptJSON ELSE <<>>

\* []byte(receiptJSON): the text as the capability returned it
CachedText(receiptJSON) == receiptJSON

CacheSet(p, hist) ==
    /\ proc[p].pc = "cacheSet"
    /\ \E setErr \in BOOLEAN :
          /\ cache' = IF setErr THEN cache
                      ELSE [cache EXCEPT ![generateCacheKey("receipt", proc[p].imageData)] =
                                             CachedText(proc[p].receiptJSON)]
          /\ proc' = [proc EXCEPT ![p].pc = "findByID",
                                  ![p].cacheSet = IF ~hist THEN "none"
                                                  ELSE IF setErr THEN "failed" ELSE "stored",
                                  ![p].setTTL = CacheTTL]
    /\ UNCHANGED <<cacheRepoNil, dbReceipts, dbItems, tx, calls, returned, pin, pout, cin, cout, sin, sout, app>>

\* the 24 hour expiry of an entry
CacheExpire(k) ==
    /\ cache[k] # <<>>
    /\ cache' = [cache EXCEPT ![k] = <<>>]
    /\ UNCHANGED <<proc, cacheRepoNil, dbReceipts, dbItems, tx, calls, returned, pin, pout, cin, cout, sin, sout, app>>

\* the stored receipt is found, yet the invocation carries on with the new one
ReturnExisting_fallthrough(p, receiptID, existingReceipt) ==
    [proc EXCEPT ![p].receiptID = receiptID,
                 ![p].existing = TRUE,
                 ![p].lookup = "hit",
                 ![p].pc = "parse"]

\* if err == nil && existingReceipt != nil { return existingReceipt, nil }
ReturnExisting(p, receiptID, existingReceipt) ==
    [proc EXCEPT ![p].receiptID = receiptID,
                 ![p].receipt = existingReceipt,
                 ![p].existing = TRUE,
                 ![p].lookup = "hit",
                 ![p].status = "ok",
                 ![p].pc = "done"]

FindByID(p) ==
    /\ proc[p].pc = "findByID"
    /\ LET receiptID == generateReceiptID(proc[p].imageData)
       IN \/ \E row \in dbReceipts :
                /\ row.id = receiptID
                /\ LET existingReceipt ==
                          toEntity(row, {it \in dbItems : it.receipt_id = receiptID})
                   IN /\ proc' = ReturnExisting(p, receiptID, existingReceipt)
                      /\ returned' = IF proc'[p].pc = "done"
                                     THEN returned \cup
                                          {<<proc[p].imageData, existingReceipt.ID, proc[p].call>>}
                                     ELSE returned
          \/ /\ \E dbErr \in BOOLEAN :
                   /\ dbErr \/ ~\E row \in dbReceipts : row.id = receiptID
                   /\ proc' = [proc EXCEPT ![p].receiptID = receiptID,
                                           ![p].lookup = IF dbErr THEN "error" ELSE "miss",
                                           ![p].pc = "parse"]
             /\ UNCHANGED returned
    /\ UNCHANGED <<cache, cacheRepoNil, dbReceipts, dbItems, tx, calls, pin, pout, cin, cout, sin, sout, app>>

Parse(p) ==
    /\ proc[p].pc = "parse"
    /\ LET r == parseReceiptJSON(proc[p].receiptJSON, proc[p].receiptID)
       IN proc' = IF r.ok
                  THEN [proc EXCEPT ![p].receipt = r.receipt, ![p].parsed = @ + 1,
                                    ![p].pc = "categorize"]
                  ELSE [Fail(p, "parse") EXCEPT ![p].parsed = @ + 1]
    /\ UNCHANGED <<cache, cacheRepoNil, dbReceipts, dbItems, tx, calls, returned, pin, pout, cin, cout, sin, sout, app>>

CatOutcome(r, outcome, itemCount) ==
    IF ~r.called THEN "skipped"
    ELSE IF outcome.err THEN "providerError"
    ELSE IF parseItemCategories(outcome.text, itemCount).cats = <<>> THEN "noCategory"
    ELSE IF outcome.text.shape = "prose" THEN "unparseable"
    ELSE "categories"

\* the error of categorizeReceiptItems is returned to the caller
AfterCategorize_fatal(p, r, outcome) ==
    IF r.err THEN [Fail(p, "categorize") EXCEPT ![p].catErr = TRUE, ![p].categorized = 1]
    ELSE [proc EXCEPT ![p].receipt = r.receipt,
                      ![p].catErr = r.err,
                      ![p].categorized = IF r.called THEN @ + 1 ELSE @,
                      ![p].catOutcome = CatOutcome(r, outcome, Len(proc[p].receipt.Items)),
                      ![p].pc = "create"]

\* _ = uc.categorizeReceiptItems(receipt)
AfterCategorize(p, r, outcome) ==
    [proc EXCEPT ![p].receipt = r.receipt,
                 ![p].catErr = r.err,
                 ![p].categorized = IF r.called THEN @ + 1 ELSE @,
                 ![p].catOutcome = CatOutcome(r, outcome, Len(proc[p].receipt.Items)),
                 ![p].pc = "create"]

Categorize(p) ==
    /\ proc[p].pc = "categorize"
    /\ \E outcome \in CategorizeOutcomes :
          proc' = AfterCategorize(p, categorizeReceiptItems(proc[p].receipt, outcome), outcome)
    /\ UNCHANGED <<cache, cacheRepoNil, dbReceipts, dbItems, tx, calls, returned, pin, pout, cin, cout, sin, sout, app>>

(***************************************************************************)
(* BunReceiptRepository.Create: RunInTx { insert receipt; insert items }   *)
(* Rows of an open transaction are invisible to the other goroutines; an   *)
(* insert waits while another open transaction holds a row with that key.  *)
(***************************************************************************)
\* no transaction: what was inserted before the failure stays
Rollback_autocommit(p, step) ==
    /\ tx' = [tx EXCEPT ![p] = NoTx]
    /\ dbReceipts' = dbReceipts \cup tx[p].receipts
    /\ dbItems' = dbItems \cup tx[p].items
    /\ proc' = [Fail(p, step) EXCEPT ![p].created = 1]

\* the function passed to RunInTx returned an error
Rollback(p, step) ==
    /\ tx' = [tx EXCEPT ![p] = NoTx]
    /\ dbReceipts' = dbReceipts
    /\ dbItems' = dbItems
    /\ proc' = [Fail(p, step) EXCEPT ![p].created = 1]

InsertReceipt(p) ==
    /\ proc[p].pc = "create"
    /\ LET model == toModel(proc[p].receipt, proc[p].imageData, proc[p].call)
       IN /\ \A q \in Procs \ {p} : ~DuplicateKey(tx[q].receipts, model.receipt.id)
          /\ \E dbErr \in BOOLEAN :
                IF dbErr
                THEN Rollback(p, "insertReceipt")
                ELSE IF DuplicateKey(dbReceipts, model.receipt.id)
                THEN /\ tx' = [tx EXCEPT ![p] = NoTx]
                     /\ UNCHANGED <<dbReceipts, dbItems>>
                     /\ proc' = [Fail(p, "insertReceipt") EXCEPT ![p].created = 1,
                                                                ![p].dupKey = TRUE]
                ELSE /\ tx' = [tx EXCEPT ![p].receipts = {model.receipt}]
                     /\ UNCHANGED <<dbReceipts, dbItems>>
                     /\ proc' = [proc EXCEPT ![p].created = 1,
                                             ![p].pc = IF model.items # {} THEN "insertItems"
                                                       ELSE "commit"]
    /\ UNCHANGED <<cache, cacheRepoNil, calls, returned, pin, pout, cin, cout, sin, sout, app>>

InsertItems(p) ==
    /\ proc[p].pc = "insertItems"
    /\ LET model == toModel(proc[p].receipt, proc[p].imageData, proc[p].call)
       IN /\ \A q \in Procs \ {p} : \A it \in model.items : ~DuplicateKey(tx[q].items, it.id)
          /\ \E dbErr \in BOOLEAN :
                IF dbErr \/ \E it \in model.items : DuplicateKey(dbItems, it.id)
                THEN Rollback(p, "insertItems")
                ELSE /\ tx' = [tx EXCEPT ![p].items = model.items]
                     /\ UNCHANGED <<dbReceipts, dbItems>>
                     /\ proc' = [proc EXCEPT ![p].pc = "commit"]
    /\ UNCHANGED <<cache, cacheRepoNil, calls, returned, pin, pout, cin, cout, sin, sout, app>>

Commit(p) ==
    /\ proc[p].pc = "commit"
    /\ \E dbErr \in BOOLEAN :
          IF dbErr
          THEN /\ Rollback(p, "commit")
               /\ UNCHANGED returned
          ELSE /\ dbReceipts' = dbReceipts \cup tx[p].receipts
               /\ dbItems' = dbItems \cup tx[p].items
               /\ tx' = [tx EXCEPT ![p] = NoTx]
               /\ proc' = [proc EXCEPT ![p].status = "ok", ![p].pc = "done"]
               /\ returned' = returned \cup
                                 {<<proc[p].imageData, proc[p].receipt.ID, proc[p].call>>}
    /\ UNCHANGED <<cache, cacheRepoNil, calls, pin, pout, cin, cout, sin, sout, app>>

(***************************************************************************)
(* HouseholdUseCase.GetCategorySummary                                     *)
(***************************************************************************)
\* an entry of the summary map is overwritten instead of accumulated
Bucket_overwrite(summaryMap, category, amount) ==
    [c \in DOMAIN summaryMap \cup {category} |->
        IF c = category THEN [Category |-> category, Count |-> 1, Total |-> amount]
        ELSE summaryMap[c]]

\* if _, exists := summaryMap[category]; !exists { ... }; Count++; Total += amount
Bucket(summaryMap, category, amount) ==
    LET entry == IF category \in DOMAIN summaryMap THEN summaryMap[category]
                 ELSE [Category |-> category, Count |-> 0, Total |-> 0]
    IN [c \in DOMAIN summaryMap \cup {category} |->
           IF c = category THEN [entry EXCEPT !.Count = @ + 1, !.Total = @ + amount]
           ELSE summaryMap[c]]

\* for _, item := range receipt.Items
RECURSIVE BucketItems(_, _)
BucketItems(summaryMap, items) ==
    IF items = <<>> THEN summaryMap
    ELSE LET item == Head(items)
             category == IF item.Category = "" THEN Other ELSE item.Category
         IN BucketItems(Bucket(summaryMap, category, item.Price * item.Quantity), Tail(items))

\* for _, receipt := range receipts
RECURSIVE BucketReceipts(_, _)
BucketReceipts(summaryMap, receipts) ==
    IF receipts = <<>> THEN summaryMap
    ELSE BucketReceipts(BucketItems(summaryMap, Head(receipts).Items), Tail(receipts))

\* for _, expense := range expenses, entries without category are skipped
RECURSIVE BucketExpenses(_, _)
BucketExpenses(summaryMap, expenses) ==
    IF expenses = <<>> THEN summaryMap
    ELSE LET expense == Head(expenses)
         IN BucketExpenses(IF expense.Category = "" THEN summaryMap
                           ELSE Bucket(summaryMap, expense.Category, expense.Amount),
                           Tail(expenses))

\* summaryMap after both loops; make(map[string]*CategorySummary) is the empty map
SummaryMap(receipts, expenses) ==
    BucketExpenses(BucketReceipts([c \in {} |-> 0], receipts), expenses)

\* the slices the map may be converted to: range over a map visits every
\* entry once, in an order that is not specified
Summaries(summaryMap) ==
    LET n == Cardinality(DOMAIN summaryMap)
    IN {s \in [1..n -> {summaryMap[c] : c \in DOMAIN summaryMap}] :
           \A i, j \in 1..n : s[i] = s[j] => i = j}

NoSumIn == [receiptsErr |-> FALSE, receipts |-> <<>>, expensesErr |-> FALSE, expenses |-> <<>>]

NoSumOut == [done |-> FALSE, err |-> FALSE, summaries |-> <<>>]

\* the App as NewApp returns it, before Run
NoApp ==
    [pc |-> "new",              \* Run: "new", "notify", "select", "shutdown", "close", "returned"
     srv |-> "none",            \* the goroutine of Run: "none", "spawned", "serving", "exited"
     listenErr |-> "none",      \* what ListenAndServe returned: "nil", "closed" (ErrServerClosed), "error"
     serverErr |-> FALSE,       \* the channel serverErr holds an error
     quit |-> <<>>,             \* the channel quit (capacity 1)
     startCalled |-> FALSE,     \* a.Start() has been called
     shutdownCalled |-> FALSE,  \* serverSeam.Shutdown has been called
     shutdownOk |-> FALSE,      \* serverSeam.Shutdown has returned nil
     closeCalled |-> FALSE,     \* container.Close has been called
     received |-> "none",       \* the signal Run took from quit
     result |-> "none"]         \* what Run returned: "nil", "serverFailed", "shutdownFailed", "closeFailed"

NoOut == [done |-> FALSE, ok |-> FALSE, receipt |-> NoReceipt]

NoCatIn == [receipt |-> NoReceipt, outcome |-> CatErr]

NoCatOut == [done |-> FALSE, err |-> FALSE, called |-> FALSE, receipt |-> NoReceipt,
             parsed |-> [ok |-> FALSE, cats |-> <<>>]]

Init ==
    /\ proc = [p \in Procs |-> IdleProc]
    /\ cache = [k \in CacheKeys |-> <<>>]
    /\ cacheRepoNil \in BOOLEAN
    /\ dbReceipts = {}
    /\ dbItems = {}
    /\ tx = [p \in Procs |-> NoTx]
    /\ calls = 0
    /\ returned = {}
    /\ pin = <<>>
    /\ pout = NoOut
    /\ cin = NoCatIn
    /\ cout = NoCatOut
    /\ sin = NoSumIn
    /\ sout = NoSumOut
    /\ app = NoApp

Next ==
    \/ \E p \in Procs : Submit(p, Images)
    \/ \E p \in Procs : CacheGet(p, FALSE)
    \/ \E p \in Procs : Recognize(p, FALSE)
    \/ \E p \in Procs : CacheSet(p, FALSE)
    \/ \E k \in CacheKeys : CacheExpire(k)
    \/ \E p \in Procs : FindByID(p)
    \/ \E p \in Procs : Parse(p)
    \/ \E p \in Procs : Categorize(p)
    \/ \E p \in Procs : InsertReceipt(p)
    \/ \E p \in Procs : InsertItems(p)
    \/ \E p \in Procs : Commit(p)

Spec == Init /\ [][Next]_vars

(***************************************************************************)
(* SpecUpload: uploads handled one after the other by HandleUpload, the    *)
(* file part of an upload may have no bytes                                *)
(***************************************************************************)
NextUpload ==
    \/ Submit("g1", Uploads)
    \/ CacheGet("g1", TRUE)
    \/ Recognize("g1", FALSE)
    \/ CacheSet("g1", TRUE)
    \/ \E k \in CacheKeys : CacheExpire(k)
    \/ FindByID("g1")
    \/ Parse("g1")
    \/ Categorize("g1")
    \/ InsertReceipt("g1")
    \/ InsertItems("g1")
    \/ Commit("g1")

SpecUpload == Init /\ [][NextUpload]_vars

(***************************************************************************)
(* SpecFixed: concurrent invocations against a recognition capability that *)
(* returns a fixed text per image; the cache may be absent, miss, fail and *)
(* expire as in Spec                                                       *)
(***************************************************************************)
NextFixed ==
    \/ \E p \in Procs : Submit(p, Uploads)
    \/ \E p \in Procs : CacheGet(p, FALSE)
    \/ \E p \in Procs : Recognize(p, TRUE)
    \/ \E p \in Procs : CacheSet(p, FALSE)
    \/ \E k \in CacheKeys : CacheExpire(k)
    \/ \E p \in Procs : FindByID(p)
    \/ \E p \in Procs : Parse(p)
    \/ \E p \in Procs : Categorize(p)
    \/ \E p \in Procs : InsertReceipt(p)
    \/ \E p \in Procs : InsertItems(p)
    \/ \E p \in Procs : Commit(p)

SpecFixed == Init /\ [][NextFixed]_vars

(***************************************************************************)
(* SpecRepeat: submissions that do not overlap: a request is only taken    *)
(* when no invocation is running, and by the goroutine whose last          *)
(* invocation is the older one, so the other goroutine shows the           *)
(* invocation that returned just before                                    *)
(***************************************************************************)
SubmitNext(p) ==
    /\ \A q \in Procs : proc[q].pc \in {"idle", "done"} /\ proc[q].call >= proc[p].call
    /\ Submit(p, Images)

NextRepeat ==
    \/ \E p \in Procs : SubmitNext(p)
    \/ \E p \in Procs : CacheGet(p, FALSE)
    \/ \E p \in Procs : Recognize(p, FALSE)
    \/ \E p \in Procs : CacheSet(p, FALSE)
    \/ \E k \in CacheKeys : CacheExpire(k)
    \/ \E p \in Procs : FindByID(p)
    \/ \E p \in Procs : Parse(p)
    \/ \E p \in Procs : Categorize(p)
    \/ \E p \in Procs : InsertReceipt(p)
    \/ \E p \in Procs : InsertItems(p)
    \/ \E p \in Procs : Commit(p)

SpecRepeat == Init /\ [][NextRepeat]_vars

(***************************************************************************)
(* SpecVision: concurrent requests to VisionHandler.HandleReceiptAnalyze,  *)
(* which shares the cache keys and the store with ProcessReceiptImage; the *)
(* receipt repository is configured.  A goroutine handles the request and  *)
(* then is the background goroutine of saveReceiptToDatabase.              *)
(***************************************************************************)
\* what rand.Reader may deliver: 16 bytes
RandomBytes ==
    { <<17, 34, 51, 68, 85, 102, 119, 136, 153, 170, 187, 204, 221, 238, 255, 0>>,
      <<254, 220, 186, 152, 118, 84, 50, 16, 1, 35, 69, 103, 137, 171, 205, 239>> }

\* b[6] = (b[6] & 0x0f) | 0x40; b[8] = (b[8] & 0x3f) | 0x80; %x-%x-%x-%x-%x
generateUUID(b) ==
    [uuid |-> FormatUUID([b EXCEPT ![7] = (@ % 16) + 64, ![9] = (@ % 64) + 128]), nonce |-> 0]

\* the receipt saveReceiptToDatabase builds from a decoded text: uuid is the
\* generateUUID() of the receipt, itemUUIDs those of the decoded items
VisionReceipt(d, uuid, itemUUIDs) ==
    LET all == [i \in 1..Len(d.items) |->
                  [ID |-> [prefix |-> uuid, index |-> i - 1, text |-> itemUUIDs[i].uuid],
                   ReceiptID |-> uuid,
                   Name |-> d.items[i].name, Quantity |-> d.items[i].quantity,
                   Price |-> d.items[i].price, Category |-> ""]]
        Named(it) == it.Name # ""
    IN [ID |-> uuid, StoreName |-> d.store_name,
        TotalAmount |-> Reconcile(d.total_amount, SumItems(d.items)),
        Items |-> SelectSeq(all, Named)]

\* method, multipart form, file part and io.ReadAll may each reject the request
VisionSubmit(p) ==
    /\ proc[p].pc \in {"idle", "done"}
    /\ calls < MaxCalls
    /\ \E img \in Images, badRequest \in BOOLEAN :
          proc' = [proc EXCEPT ![p] =
                      [IdleProc EXCEPT !.pc = IF badRequest THEN "done" ELSE "vCacheGet",
                                       !.response = IF badRequest THEN "badRequest" ELSE "none",
                                       !.imageData = IF badRequest THEN "" ELSE img,
                                       !.call = calls + 1]]
    /\ calls' = calls + 1
    /\ UNCHANGED <<cache, cacheRepoNil, dbReceipts, dbItems, tx, returned, pin, pout, cin, cout,
                   sin, sout, app>>

\* a cached text is sent back as it is: X-Cache: HIT
VisionCacheGet(p) ==
    /\ proc[p].pc = "vCacheGet"
    /\ \E getErr \in (IF cacheRepoNil THEN {FALSE} ELSE BOOLEAN) :
          LET cached == cache[generateCacheKey("receipt", proc[p].imageData)]
          IN proc' = IF ~cacheRepoNil /\ ~getErr /\ Len(cached) > 0
                     THEN [proc EXCEPT ![p].receiptJSON = cached, ![p].response = "HIT",
                                       ![p].pc = "done"]
                     ELSE [proc EXCEPT ![p].pc = "vRecognize"]
    /\ UNCHANGED <<cache, cacheRepoNil, dbReceipts, dbItems, tx, calls, returned, pin, pout, cin, cout,
                   sin, sout, app>>

VisionRecognize(p) ==
    /\ proc[p].pc = "vRecognize"
    /\ \/ proc' = [proc EXCEPT ![p].recognized = @ + 1, ![p].response = "error",
                                ![p].pc = "done"]
       \/ \E text \in RecognizeTexts(proc[p].imageData) :
             proc' = [proc EXCEPT ![p].receiptJSON = text,
                                  ![p].recognized = @ + 1,
                                  ![p].pc = IF cacheRepoNil THEN "vSave" ELSE "vCacheSet"]
    /\ UNCHANGED <<cache, cacheRepoNil, dbReceipts, dbItems, tx, calls, returned, pin, pout, cin, cout,
                   sin, sout, app>>

VisionCacheSet(p) ==
    /\ proc[p].pc = "vCacheSet"
    /\ \E setErr \in BOOLEAN :
          cache' = IF setErr THEN cache
                   ELSE [cache EXCEPT ![generateCacheKey("receipt", proc[p].imageData)] =
                                          proc[p].receiptJSON]
    /\ proc' = [proc EXCEPT ![p].pc = "vSave"]
    /\ UNCHANGED <<cacheRepoNil, dbReceipts, dbItems, tx, calls, returned, pin, pout, cin, cout,
                   sin, sout, app>>

\* go h.saveReceiptToDatabase(...) and the response X-Cache: MISS; the
\* goroutine decodes the text and, when that works, goes on to Create
VisionSave(p) ==
    /\ proc[p].pc = "vSave"
    /\ LET u == Unmarshal(CleanJSON(proc[p].receiptJSON))
       IN IF ~u.ok
          THEN proc' = [proc EXCEPT ![p].response = "MISS", ![p].parsed = @ + 1,
                                    ![p].errAt = "parse", ![p].pc = "done"]
          ELSE \E b \in RandomBytes, bs \in [1..Len(u.data.items) -> RandomBytes] :
                  proc' = [proc EXCEPT
                              ![p].response = "MISS", ![p].parsed = @ + 1,
                              ![p].receiptID = generateUUID(b),
                              ![p].receipt =
                                  VisionReceipt(u.data, generateUUID(b),
                                                [i \in 1..Len(u.data.items) |-> generateUUID(bs[i])]),
                              ![p].pc = "create"]
    /\ UNCHANGED <<cache, cacheRepoNil, dbReceipts, dbItems, tx, calls, returned, pin, pout, cin, cout,
                   sin, sout, app>>

NextVision ==
    \/ \E p \in Procs : VisionSubmit(p)
    \/ \E p \in Procs : VisionCacheGet(p)
    \/ \E p \in Procs : VisionRecognize(p)
    \/ \E p \in Procs : VisionCacheSet(p)
    \/ \E k \in CacheKeys : CacheExpire(k)
    \/ \E p \in Procs : VisionSave(p)
    \/ \E p \in Procs : InsertReceipt(p)
    \/ \E p \in Procs : InsertItems(p)
    \/ \E p \in Procs : Commit(p)

SpecVision == Init /\ [][NextVision]_vars

(***************************************************************************)
(* SpecParse: parseReceiptJSON on every text within the bounds             *)
(***************************************************************************)
Amounts == (0 - 1)..MaxAmount

\* quantities of a decoded item: negative, one, several
Quantities == {0 - 1, 1, 2}

DecodedItems == [name : {"", "milk"}, quantity : Quantities, price : Amounts]

ParseDocs ==
    [store_name : {"Lawson"}, total_amount : Amounts,
     items : UNION {[1..n -> DecodedItems] : n \in 0..MaxItems}]

ParseInputs ==
    {<<DocTok(d)>> : d \in ParseDocs}
    \cup {<<Tok("prose"), Tok("fence_json"), Tok("ws"), DocTok(d), Tok("ws"), Tok("fence")>> :
             d \in {x \in ParseDocs : Len(x.items) <= 1}}
    \cup {<<>>, <<Tok("prose")>>, <<Tok("fence_json"), Tok("fence")>>,
          <<Tok("prose"), DocTok(DocMilk)>>}

InitParse ==
    /\ proc = [p \in Procs |-> IdleProc]
    /\ cache = [k \in CacheKeys |-> <<>>]
    /\ cacheRepoNil = FALSE
    /\ dbReceipts = {}
    /\ dbItems = {}
    /\ tx = [p \in Procs |-> NoTx]
    /\ calls = 0
    /\ returned = {}
    /\ pin \in ParseInputs
    /\ pout = NoOut
    /\ cin = NoCatIn
    /\ cout = NoCatOut
    /\ sin = NoSumIn
    /\ sout = NoSumOut
    /\ app = NoApp

ParseApply ==
    /\ ~pout.done
    /\ LET r == parseReceiptJSON(pin, generateReceiptID("imgA"))
       IN pout' = [done |-> TRUE, ok |-> r.ok, receipt |-> r.receipt]
    /\ UNCHANGED <<proc, cache, cacheRepoNil, dbReceipts, dbItems, tx, calls, returned, pin, cin, cout, sin, sout, app>>

NextParse == ParseApply

SpecParse == InitParse /\ [][NextParse]_vars

(***************************************************************************)
(* SpecCat: categorizeReceiptItems on every receipt and classifier outcome *)
(* within the bounds                                                       *)
(***************************************************************************)
\* the categories the prompt of categorizeReceiptItems asks for
Vocabulary ==
    {"shokuhi", "nichiyohin", "iryohi", "gorakuhi", "kotsuhi", "tsushinhi", "konetsuhi", Other}

\* category strings a response may carry; "" is the empty string, "gaishoku"
\* a word that is not in the vocabulary
Categories == {"", "shokuhi", "nichiyohin", "gaishoku"}

ItemName(i) == CASE i = 1 -> "milk" [] i = 2 -> "soap" [] OTHER -> "tea"

\* a parsed receipt with n items, not yet categorized
CatReceipt(n) ==
    parseReceiptJSON(<<DocTok([store_name |-> "Lawson", total_amount |-> n,
                               items |-> [i \in 1..n |-> Item(ItemName(i), 1, 1)]])>>,
                     generateReceiptID("imgA")).receipt

\* a response may carry one category more than there are items
CatLists == UNION {[1..n -> Categories] : n \in 0..(MaxItems + 1)}

CatResponses ==
    {Resp(sh, c, {}) : sh \in {"strarray", "catobj", "lines"}, c \in CatLists}
    \cup {Resp("objarray", c, {}) : c \in CatLists \ {<<>>}}
    \cup UNION {{Resp("map", c, K) :
                     c \in {f \in [1..(MaxItems + 1) -> Categories] :
                               \A k \in 1..(MaxItems + 1) : k \notin K => f[k] = ""}} :
                  K \in SUBSET (1..(MaxItems + 1))}
    \cup {Resp("prose", <<>>, {})}

CatInputs ==
    [receipt : {CatReceipt(n) : n \in 0..MaxItems},
     outcome : {CatErr} \cup {CatOk(r) : r \in CatResponses}
                        \cup {CatOk(Fenced(r)) : r \in CatResponses}]

InitCat ==
    /\ proc = [p \in Procs |-> IdleProc]
    /\ cache = [k \in CacheKeys |-> <<>>]
    /\ cacheRepoNil = FALSE
    /\ dbReceipts = {}
    /\ dbItems = {}
    /\ tx = [p \in Procs |-> NoTx]
    /\ calls = 0
    /\ returned = {}
    /\ pin = <<>>
    /\ pout = NoOut
    /\ cin \in CatInputs
    /\ cout = NoCatOut
    /\ sin = NoSumIn
    /\ sout = NoSumOut
    /\ app = NoApp

CatApply ==
    /\ ~cout.done
    /\ LET n == Len(cin.receipt.Items)
           r == categorizeReceiptItems(cin.receipt, cin.outcome)
       IN cout' = [done |-> TRUE, err |-> r.err, called |-> r.called, receipt |-> r.receipt,
                   parsed |-> IF r.called /\ ~cin.outcome.err
                              THEN parseItemCategories(cin.outcome.text, n)
                              ELSE NoCatOut.parsed]
    /\ UNCHANGED <<proc, cache, cacheRepoNil, dbReceipts, dbItems, tx, calls, returned, pin, pout, cin, sin, sout, app>>

NextCat == CatApply

SpecCat == InitCat /\ [][NextCat]_vars

(***************************************************************************)
(* SpecSummary: GetCategorySummary on every content of the two stores      *)
(* within the bounds                                                       *)
(***************************************************************************)
\* categories of stored line items; "" is an item without category
ItemCategories == {"", "shokuhi", Other}

\* categories of ledger entries; "" is an entry without category
ExpenseCategories == {"", "shokuhi", "kotsuhi"}

\* a cheap single item or several expensive ones
SumItemKinds ==
    {[Category |-> c, Price |-> pq[1], Quantity |-> pq[2]] :
        c \in ItemCategories, pq \in {<<1, 1>>, <<MaxAmount, 2>>}}

SumItemLists == UNION {[1..n -> SumItemKinds] : n \in 0..MaxItems}

SumReceipt(items) == [NoReceipt EXCEPT !.Items = items]

\* the items in one receipt, or split over two receipts
SumReceiptLists ==
    {<<>>} \cup {<<SumReceipt(l)>> : l \in SumItemLists}
    \cup UNION {{<<SumReceipt(SubSeq(l, 1, k)), SumReceipt(SubSeq(l, k + 1, Len(l)))>> :
                    k \in 0..Len(l)} : l \in SumItemLists}

SumExpenseLists ==
    UNION {[1..n -> [Category : ExpenseCategories, Amount : {1, MaxAmount}]] : n \in 0..2}

SumInputs ==
    {[receiptsErr |-> FALSE, receipts |-> r, expensesErr |-> FALSE, expenses |-> e] :
        r \in SumReceiptLists, e \in SumExpenseLists}
    \cup {[NoSumIn EXCEPT !.receiptsErr = TRUE], [NoSumIn EXCEPT !.expensesErr = TRUE]}

InitSummary ==
    /\ proc = [p \in Procs |-> IdleProc]
    /\ cache = [k \in CacheKeys |-> <<>>]
    /\ cacheRepoNil = FALSE
    /\ dbReceipts = {}
    /\ dbItems = {}
    /\ tx = [p \in Procs |-> NoTx]
    /\ calls = 0
    /\ returned = {}
    /\ pin = <<>>
    /\ pout = NoOut
    /\ cin = NoCatIn
    /\ cout = NoCatOut
    /\ sin \in SumInputs
    /\ sout = NoSumOut
    /\ app = NoApp

GetCategorySummary ==
    /\ ~sout.done
    /\ IF sin.receiptsErr \/ sin.expensesErr
       THEN sout' = [done |-> TRUE, err |-> TRUE, summaries |-> <<>>]
       ELSE \E s \in Summaries(SummaryMap(sin.receipts, sin.expenses)) :
               sout' = [done |-> TRUE, err |-> FALSE, summaries |-> s]
    /\ UNCHANGED <<proc, cache, cacheRepoNil, dbReceipts, dbItems, tx, calls, returned, pin, pout,
                   cin, cout, sin, app>>

NextSummary == GetCategorySummary

SpecSummary == InitSummary /\ [][NextSummary]_vars

(***************************************************************************)
(* SpecApp: App.Run with its server goroutine and the signals delivered to *)
(* the channel quit.  A signal that arrives before signal.Notify ends the  *)
(* process by the runtime's default and is not part of the model.          *)
(***************************************************************************)
Signals == {"SIGINT", "SIGTERM"}

InitApp ==
    /\ proc = [p \in Procs |-> IdleProc]
    /\ cache = [k \in CacheKeys |-> <<>>]
    /\ cacheRepoNil = FALSE
    /\ dbReceipts = {}
    /\ dbItems = {}
    /\ tx = [p \in Procs |-> NoTx]
    /\ calls = 0
    /\ returned = {}
    /\ pin = <<>>
    /\ pout = NoOut
    /\ cin = NoCatIn
    /\ cout = NoCatOut
    /\ sin = NoSumIn
    /\ sout = NoSumOut
    /\ app = NoApp

AppUnchanged ==
    UNCHANGED <<proc, cache, cacheRepoNil, dbReceipts, dbItems, tx, calls, returned, pin, pout,
                cin, cout, sin, sout>>

\* serverErr := make(chan error, 1); go func() { ... }()
RunSpawn ==
    /\ app.pc = "new"
    /\ app' = [app EXCEPT !.pc = "notify", !.srv = "spawned"]
    /\ AppUnchanged

\* quit := make(chan os.Signal, 1); signal.Notify(quit, SIGINT, SIGTERM)
RunNotify ==
    /\ app.pc = "notify"
    /\ app' = [app EXCEPT !.pc = "select"]
    /\ AppUnchanged

\* the goroutine gets to run: a.Start() prints and calls ListenAndServe
ServerStart ==
    /\ app.srv = "spawned"
    /\ app' = [app EXCEPT !.srv = "serving", !.startCalled = TRUE]
    /\ AppUnchanged

\* ListenAndServe returns: ErrServerClosed once Shutdown has been called, any
\* other error (or nil, from a ServerInterface that allows it) at any time;
\* an error other than ErrServerClosed is sent to serverErr
ServerReturn ==
    /\ app.srv = "serving"
    /\ \E err \in {"nil", "error"} \cup (IF app.shutdownCalled THEN {"closed"} ELSE {}) :
          app' = [app EXCEPT !.srv = "exited", !.listenErr = err,
                             !.serverErr = (err = "error")]
    /\ AppUnchanged

\* the runtime hands a signal to quit; it is dropped when the channel is full
Signal ==
    /\ app.pc \in {"select", "shutdown", "close", "returned"}
    /\ app.quit = <<>>
    /\ \E sig \in Signals : app' = [app EXCEPT !.quit = <<sig>>]
    /\ AppUnchanged

\* case err := <-serverErr: return fmt.Errorf("server failed: %w", err)
SelectServerErr ==
    /\ app.pc = "select"
    /\ app.serverErr
    /\ app' = [app EXCEPT !.serverErr = FALSE, !.pc = "returned", !.result = "serverFailed"]
    /\ AppUnchanged

\* case <-quit: ... return a.Shutdown(ctx), which first calls serverSeam.Shutdown
SelectQuit ==
    /\ app.pc = "select"
    /\ app.quit # <<>>
    /\ app' = [app EXCEPT !.quit = <<>>, !.received = app.quit[1],
                          !.pc = "shutdown", !.shutdownCalled = TRUE]
    /\ AppUnchanged

\* the container is closed whatever serverSeam.Shutdown returned
AfterServerShutdown_ignore(err) == [app EXCEPT !.shutdownOk = ~err, !.pc = "close"]

\* if err := a.serverSeam.Shutdown(ctx); err != nil { return ... }
AfterServerShutdown(err) ==
    IF err THEN [app EXCEPT !.pc = "returned", !.result = "shutdownFailed"]
    ELSE [app EXCEPT !.shutdownOk = TRUE, !.pc = "close"]

\* serverSeam.Shutdown returns, at the latest when the 30 s of ctx are over
ShutdownReturn ==
    /\ app.pc = "shutdown"
    /\ \E err \in BOOLEAN : app' = AfterServerShutdown(err)
    /\ AppUnchanged

\* a.container.Close() and the return of Shutdown and Run
ContainerClose ==
    /\ app.pc = "close"
    /\ \E err \in BOOLEAN :
          app' = [app EXCEPT !.closeCalled = TRUE, !.pc = "returned",
                             !.result = IF err THEN "closeFailed" ELSE "nil"]
    /\ AppUnchanged

\* the steps of the goroutine that runs Run
RunStep ==
    \/ RunSpawn
    \/ RunNotify
    \/ SelectServerErr
    \/ SelectQuit
    \/ ShutdownReturn
    \/ ContainerClose

NextApp ==
    \/ RunStep
    \/ ServerStart
    \/ ServerReturn
    \/ Signal

\* a goroutine that can run is run: Run's own steps are taken when enabled
SpecApp == InitApp /\ [][NextApp]_vars /\ WF_vars(RunStep)

(***************************************************************************)
(* Properties                                                              *)
(***************************************************************************)
ReceiptRowsBy(c) == {r \in dbReceipts : r.call = c}

ItemRowsBy(c) == {it \in dbItems : it.call = c}

\* invocation of p wrote nothing that is visible or pending
WroteNothing(p) ==
    /\ ReceiptRowsBy(proc[p].call) = {}
    /\ ItemRowsBy(proc[p].call) = {}
    /\ tx[p] = NoTx

\* C1: however ProcessReceiptImage calls follow one another, the store holds
\* at most one receipt per image content, and successful calls with the same
\* bytes return the same receipt id.
C1_Idempotence ==
    /\ \A img \in Images : Cardinality({r \in dbReceipts : r.image = img}) <= 1
    /\ \A a, b \in returned : a[1] = b[1] => a[2] = b[2]

\* two different invocations for the same bytes have both returned successfully
C1_Witness ==
    \E a, b \in returned :
        /\ a[3] # b[3]
        /\ a[1] = b[1]
        /\ Cardinality({r \in dbReceipts : r.image = a[1]}) = 1

\* C2: with the primary key enforced, interleaved duplicate submissions never
\* leave two receipt rows with one id, and the item rows of a receipt all come
\* from the invocation that wrote its receipt row.
C2_NoDuplicateRows ==
    /\ \A r1, r2 \in dbReceipts : r1.id = r2.id => r1 = r2
    /\ \A it \in dbItems : \E r \in dbReceipts : r.id = it.receipt_id /\ r.call = it.call

\* both invocations missed in FindByID; one committed, the other was rejected
C2_Witness ==
    \E p, q \in Procs :
        /\ p # q
        /\ proc[p].imageData = proc[q].imageData
        /\ proc[p].lookup = "miss" /\ proc[p].dupKey
        /\ proc[q].lookup = "miss" /\ proc[q].pc = "done" /\ proc[q].status = "ok"
        /\ dbItems # {}

\* C3: an invocation whose Create was rejected for a duplicate primary key
\* re-fetches the stored receipt and returns it successfully.
C3_DuplicateKeyBenign ==
    \A p \in Procs :
        proc[p].dupKey =>
            /\ proc[p].status = "ok"
            /\ proc[p].receipt.ID = proc[p].receiptID

\* C4: when FindByID finds the receipt, the invocation returns exactly that
\* stored receipt and has parsed nothing, classified nothing, created nothing
\* and written no row.
C4_ExistingReturnedUntouched ==
    \A p \in Procs :
        proc[p].lookup = "hit" =>
            /\ proc[p].pc = "done" /\ proc[p].status = "ok"
            /\ \E row \in dbReceipts :
                  /\ row.id = proc[p].receiptID
                  /\ proc[p].receipt =
                        toEntity(row, {it \in dbItems : it.receipt_id = row.id})
            /\ proc[p].parsed = 0 /\ proc[p].categorized = 0 /\ proc[p].created = 0
            /\ WroteNothing(p)

C4_Witness ==
    \E p \in Procs :
        /\ proc[p].lookup = "hit" /\ proc[p].pc = "done"
        /\ Len(proc[p].receipt.Items) > 0

RECURSIVE SumOwn(_)
SumOwn(items) ==
    IF items = <<>> THEN 0
    ELSE Head(items).Price * Head(items).Quantity + SumOwn(Tail(items))

\* C5: a receipt produced by parseReceiptJSON with at least one item and a
\* positive sum over its own items has TotalAmount equal to that sum.
C5_ArithmeticInvariant ==
    (pout.done /\ pout.ok /\ Len(pout.receipt.Items) >= 1 /\ SumOwn(pout.receipt.Items) > 0)
        => pout.receipt.TotalAmount = SumOwn(pout.receipt.Items)

\* C6: the reported total is replaced by the sum over the decoded items exactly
\* when that sum is positive; otherwise TotalAmount is the reported value.
C6_ReconciliationEdge ==
    (pout.done /\ pout.ok) =>
        LET d == Decoded(pin)
            sum == SumItems(d.items)
        IN /\ sum > 0 => pout.receipt.TotalAmount = sum
           /\ sum <= 0 => pout.receipt.TotalAmount = d.total_amount

\* items are decoded, their sum is not positive and differs from the reported total
C6_Witness ==
    /\ pout.done /\ pout.ok
    /\ Decoded(pin).items # <<>>
    /\ SumItems(Decoded(pin).items) < 0
    /\ Decoded(pin).total_amount > 0
    /\ pout.receipt.TotalAmount = Decoded(pin).total_amount

\* C7: when decoding the raw text fails, the invocation ends with an error and
\* no receipt, has called neither the classifier nor Create, and has written
\* no row.
C7_DecodeFailureTerminal ==
    \A p \in Procs :
        (proc[p].parsed = 1 /\ ~Unmarshal(CleanJSON(proc[p].receiptJSON)).ok) =>
            /\ proc[p].pc = "done" /\ proc[p].status = "err" /\ proc[p].errAt = "parse"
            /\ proc[p].receipt = NoReceipt
            /\ proc[p].categorized = 0 /\ proc[p].created = 0
            /\ WroteNothing(p)

C7_Witness ==
    \E p \in Procs :
        /\ proc[p].pc = "done" /\ proc[p].errAt = "parse"
        /\ proc[p].receiptJSON # <<>>
        /\ dbReceipts # {}

\* C8: when Create fails at the receipt insert, the item insert or the commit,
\* the invocation returns an error and no receipt and none of its rows is
\* visible; a Create that succeeded made the receipt row and all item rows
\* visible together.
C8_PersistenceFailureAtomic ==
    \A p \in Procs :
        /\ proc[p].errAt \in CreateSteps =>
              /\ proc[p].pc = "done" /\ proc[p].status = "err"
              /\ proc[p].receipt = NoReceipt
              /\ WroteNothing(p)
        /\ (proc[p].pc = "done" /\ proc[p].status = "ok" /\ ~proc[p].existing) =>
              LET model == toModel(proc[p].receipt, proc[p].imageData, proc[p].call)
              IN /\ ReceiptRowsBy(proc[p].call) = {model.receipt}
                 /\ ItemRowsBy(proc[p].call) = model.items

\* the item insert failed after the receipt row had been inserted
C8_Witness ==
    \E p \in Procs : proc[p].pc = "done" /\ proc[p].errAt = "insertItems"

\* C9: once decoding succeeded after a lookup that found nothing, a failed
\* classification (provider error or unparseable response) never ends the
\* invocation: Create is called, the only error returned is Create's own, and
\* a successful return carries the new receipt, which is stored.
C9_ClassifierNotFatal ==
    \A p \in Procs :
        proc[p].catErr =>
            /\ proc[p].pc \in {"create", "insertItems", "commit", "done"}
            /\ proc[p].pc = "done" =>
                  /\ proc[p].created = 1
                  /\ proc[p].status = "ok" \/ proc[p].errAt \in CreateSteps
            /\ proc[p].status = "ok" =>
                  /\ proc[p].receipt.ID = proc[p].receiptID
                  /\ \E r \in dbReceipts : r.call = proc[p].call /\ r.id = proc[p].receiptID

C9_Witness ==
    \E p \in Procs :
        /\ proc[p].catErr /\ proc[p].catOutcome = "providerError"
        /\ proc[p].pc = "done" /\ proc[p].status = "ok"

\* C10: when the classification call fails or its response yields no category,
\* categorizeReceiptItems reports no error and every item of the receipt that
\* is returned has the Other category.
C10_DefaultCategoryOnFailure ==
    \A p \in Procs :
        proc[p].catOutcome \in {"providerError", "noCategory"} =>
            /\ ~proc[p].catErr
            /\ proc[p].status = "ok" =>
                  \A i \in 1..Len(proc[p].receipt.Items) :
                      proc[p].receipt.Items[i].Category = Other

\* C11: when the classification response matches none of the supported shapes,
\* classification is reported as failed, a successful ingestion has every item
\* categorized as Other, and no item carries the raw response text as category.
C11_UnparseableDefaultsToOther ==
    \A p \in Procs :
        proc[p].catOutcome = "unparseable" =>
            /\ proc[p].catErr
            /\ \A i \in 1..Len(proc[p].receipt.Items) :
                  /\ proc[p].receipt.Items[i].Category # RawText
                  /\ proc[p].status = "ok" => proc[p].receipt.Items[i].Category = Other

\* C12: after categorizeReceiptItems succeeded on a receipt with n >= 1 items
\* and the parsed list cats, item i has category cats[i] when that exists and
\* is not empty and Other otherwise; no category is empty, surplus parsed
\* categories are ignored and nothing else of the receipt changes.
C12_PerItemDegradation ==
    (cout.done /\ cout.called /\ ~cout.err) =>
        LET cats == cout.parsed.cats
            before == cin.receipt.Items
            after == cout.receipt.Items
        IN /\ Len(after) = Len(before)
           /\ \A i \in 1..Len(after) :
                 /\ after[i].Category =
                       IF i <= Len(cats) /\ cats[i] # "" THEN cats[i] ELSE Other
                 /\ after[i].Category # ""
                 /\ [after[i] EXCEPT !.Category = ""] = before[i]

\* two items, three parsed categories of which the first is empty
C12_Witness ==
    /\ cout.done /\ cout.called /\ ~cout.err
    /\ Len(cout.receipt.Items) = 2
    /\ Len(cout.parsed.cats) = 3
    /\ cout.parsed.cats[1] = ""
    /\ cout.receipt.Items[1].Category = Other
    /\ cout.receipt.Items[2].Category = "nichiyohin"

\* C13: a response in one of the five supported shapes that gives a category
\* for each of the n items, wrapped in a ```json fence or not, is parsed
\* without error into the list of length n whose i-th element is the category
\* given for item i; a JSON string array is returned as it is, so the first
\* strategy takes precedence.
C13_ParserTolerance ==
    (cout.done /\ cout.called /\ ~cin.outcome.err) =>
        LET r == cin.outcome.text
            n == Len(cin.receipt.Items)
            NonBlank(c) == c # ""
            complete == CASE r.shape \in {"strarray", "objarray", "catobj"} -> Len(r.cats) = n
                          [] r.shape = "map" -> \A k \in 1..n : k \in r.keys
                          [] r.shape = "lines" -> Len(SelectSeq(r.cats, NonBlank)) = n
                          [] OTHER -> FALSE
            given == CASE r.shape = "map" -> [i \in 1..n |-> r.cats[i]]
                       [] r.shape = "lines" -> SelectSeq(r.cats, NonBlank)
                       [] OTHER -> r.cats
        IN /\ complete => /\ cout.parsed.ok
                          /\ Len(cout.parsed.cats) = n
                          /\ cout.parsed.cats = given
           /\ r.shape = "strarray" => cout.parsed.ok /\ cout.parsed.cats = r.cats

\* a fenced numbered object for two items
C13_Witness ==
    /\ cout.done /\ cout.called
    /\ ~cin.outcome.err
    /\ cin.outcome.text.fence
    /\ cin.outcome.text.shape = "map"
    /\ cin.outcome.text.keys = {1, 2}
    /\ Len(cin.receipt.Items) = 2
    /\ cout.parsed.cats = <<"shokuhi", "nichiyohin">>
    /\ cout.receipt.Items[2].Category = "nichiyohin"

\* C14: for a numbered-object response, the item at position i gets the value
\* under key i whenever that key is present (and its value is not empty), for
\* every set of present keys; an item whose key is absent gets Other.
C14_NumberedObjectPositional ==
    (cout.done /\ cout.called /\ ~cin.outcome.err /\ cin.outcome.text.shape = "map"
        /\ cin.outcome.text.keys # {}) =>
        LET r == cin.outcome.text
        IN /\ ~cout.err
           /\ \A i \in 1..Len(cout.receipt.Items) :
                 /\ (i \in r.keys /\ r.cats[i] # "") => cout.receipt.Items[i].Category = r.cats[i]
                 /\ i \notin r.keys => cout.receipt.Items[i].Category = Other

C16_CacheProtocol ==
    /\ [](\A p \in Procs :
            LET miss == proc[p].cacheGot \in {"nil", "error", "empty"}
            IN /\ proc[p].pc = "recognize" => miss /\ proc[p].recognized = 0
               /\ proc[p].cacheGot # "none" => (proc[p].cacheGot = "nil" <=> cacheRepoNil)
               /\ proc[p].pc \in {"cacheSet", "findByID", "parse", "categorize", "create",
                                  "insertItems", "commit", "done"} =>
                     /\ proc[p].recognized = 1 <=> miss
                     /\ proc[p].recognized = 0 <=> proc[p].cacheGot = "hit"
               /\ proc[p].cacheGot = "hit" => proc[p].receiptJSON # <<>>
               /\ proc[p].errAt \notin {"cacheGet", "cacheSet"}
               /\ proc[p].cacheSet # "none" =>
                     proc[p].recognized = 1 /\ ~cacheRepoNil /\ proc[p].setTTL = 24
               /\ (proc[p].pc \in {"findByID", "parse", "categorize", "create", "insertItems",
                                   "commit"} /\ proc[p].recognized = 1 /\ ~cacheRepoNil) =>
                     proc[p].cacheSet # "none")
    /\ [][\A p \in Procs :
            LET k == generateCacheKey("receipt", proc[p].imageData)
            IN /\ (proc[p].pc = "cacheGet" /\ proc'[p].cacheGot = "hit") =>
                     /\ cache[k] # <<>>
                     /\ proc'[p].receiptJSON = cache[k]
                     /\ proc'[p].pc = "findByID"
               /\ (proc[p].pc = "cacheSet" /\ proc'[p].cacheSet = "stored") =>
                     /\ cache' = [cache EXCEPT ![k] = proc[p].receiptJSON]
                     /\ proc'[p].pc = "findByID"
               /\ (proc[p].pc = "cacheSet" /\ proc'[p].cacheSet = "failed") =>
                     /\ cache' = cache
                     /\ proc'[p].pc = "findByID"
               /\ (proc[p].pc = "parse" /\ proc[p].cacheGot = "hit" /\ proc'[p].pc # "parse") =>
                     proc'[p].parsed = 1 /\ proc'[p].receiptJSON = proc[p].receiptJSON]_vars

\* a second upload of the image was served from the cache, after a first one
\* whose text was stored
C16_Witness ==
    \E p \in Procs :
        /\ proc[p].call = 2
        /\ proc[p].cacheGot = "hit" /\ proc[p].recognized = 0
        /\ proc[p].pc = "done" /\ proc[p].status = "ok" /\ ~proc[p].existing
        /\ Len(proc[p].receipt.Items) >= 1

\* C17: with a recognition capability that returns a fixed text per image,
\* whatever the cache does (absent, miss, error on Get or Set, expiry, hit),
\* the text an invocation works on, the rows that get stored, the ids that are
\* returned and the parse errors are those of the image's fixed text alone.
C17_CacheNotSourceOfDedup ==
    /\ \A p \in Procs :
          LET expected == parseReceiptJSON(FixedText(proc[p].imageData),
                                           generateReceiptID(proc[p].imageData))
          IN /\ proc[p].pc \in {"cacheSet", "findByID", "parse", "categorize", "create",
                                "insertItems", "commit", "done"} =>
                   proc[p].receiptJSON = FixedText(proc[p].imageData)
             /\ proc[p].errAt \notin {"cacheGet", "recognize", "cacheSet"}
             /\ proc[p].errAt = "parse" => ~expected.ok
             /\ (proc[p].parsed = 1 /\ ~expected.ok) => proc[p].errAt = "parse"
             /\ (proc[p].status = "ok" /\ ~proc[p].existing) =>
                   [i \in 1..Len(proc[p].receipt.Items) |->
                       [proc[p].receipt.Items[i] EXCEPT !.Category = ""]]
                      = expected.receipt.Items
    /\ \A r \in dbReceipts :
          LET expected == parseReceiptJSON(FixedText(r.image), generateReceiptID(r.image))
              model == toModel(expected.receipt, r.image, r.call)
          IN /\ expected.ok
             /\ r = model.receipt
             /\ \A q \in dbReceipts : q.image = r.image => q = r
             /\ {it \in dbItems : it.receipt_id = r.id} \in {{}, model.items}
    /\ \A it \in dbItems : \E r \in dbReceipts : r.id = it.receipt_id /\ r.call = it.call
    /\ \A a \in returned : a[2] = generateReceiptID(a[1])

\* an invocation served from the cache stored the receipt, and another one of
\* the same image, which had called the recognition itself, found it
C17_Witness ==
    \E p, q \in Procs :
        /\ p # q
        /\ proc[p].imageData = proc[q].imageData
        /\ proc[p].pc = "done" /\ proc[p].status = "ok" /\ ~proc[p].existing
        /\ proc[p].recognized = 0
        /\ proc[q].pc = "done" /\ proc[q].status = "ok" /\ proc[q].existing
        /\ proc[q].recognized = 1
        /\ dbItems # {}

\* C18: an upload whose image has no bytes is rejected as a validation
\* failure before the response cache, the recognition capability or the store
\* is called.
C18_EmptyImageRejected ==
    \A p \in Procs :
        (proc[p].pc # "idle" /\ proc[p].imageData = EmptyImage) =>
            /\ proc[p].cacheGot \in {"none", "nil"}
            /\ proc[p].recognized = 0
            /\ proc[p].lookup = "none"
            /\ proc[p].created = 0
            /\ proc[p].pc = "done" => proc[p].status = "err" /\ proc[p].errAt = "validate"

C20_DeterministicIdentity ==
    LET IsUUID(s) ==
            /\ Len(s) = 36
            /\ \A i \in 1..36 :
                  IF i \in {9, 14, 19, 24} THEN s[i] = "-"
                  ELSE \E d \in 1..16 : s[i] = HexDigits[d]
        ItemIDs(r) == [i \in 1..Len(r.Items) |-> r.Items[i].ID.text]
        Parsed(p) == proc[p].parsed = 1 /\ proc[p].receipt # NoReceipt /\ ~proc[p].existing
    IN /\ \A p \in Procs :
             proc[p].receiptID # NoID =>
                /\ IsUUID(proc[p].receiptID.uuid)
                /\ proc[p].receiptID.nonce = 0
                /\ \A q \in Procs :
                      (proc[q].receiptID # NoID /\ proc[q].imageData = proc[p].imageData) =>
                         proc[q].receiptID = proc[p].receiptID
                /\ \A a \in returned : a[1] = proc[p].imageData => a[2] = proc[p].receiptID
                /\ \A r \in dbReceipts : r.image = proc[p].imageData => r.id = proc[p].receiptID
       /\ \A p, q \in Procs :
             (Parsed(p) /\ Parsed(q) /\ proc[p].receiptJSON = proc[q].receiptJSON
                 /\ proc[p].receiptID = proc[q].receiptID) =>
                ItemIDs(proc[p].receipt) = ItemIDs(proc[q].receipt)
       /\ \A p \in Procs :
             Parsed(p) =>
                LET rows == {it \in dbItems : it.receipt_id = proc[p].receiptID}
                IN rows # {} =>
                      {it.id.text : it \in rows} =
                          {ItemIDs(proc[p].receipt)[i] : i \in 1..Len(proc[p].receipt.Items)}

\* two invocations parsed the same text of one image, one of them before the
\* other stored its rows
C20_Witness ==
    \E p, q \in Procs :
        /\ p # q
        /\ proc[p].imageData = proc[q].imageData
        /\ proc[p].parsed = 1 /\ proc[q].parsed = 1
        /\ Len(proc[p].receipt.Items) >= 1 /\ Len(proc[q].receipt.Items) >= 1
        /\ proc[q].pc = "done" /\ proc[q].status = "ok"
        /\ \E it \in dbItems : it.receipt_id = proc[p].receiptID
        /\ proc[p].receiptID.uuid = FormatUUID(<<163, 241, 7, 200, 18, 52, 86, 120, 154, 188,
                                                 222, 240, 1, 35, 69, 103>>)

\* C21: GetCategorySummary returns exactly one entry per category that occurs
\* among the line items (an empty category counted as Other) and the ledger
\* entries with a category; its Count is the number of those items plus the
\* number of those entries and its Total the sum of Price*Quantity over the
\* items plus the sum of Amount over the entries; ledger entries without a
\* category contribute nothing.
C21_AggregationCorrectness ==
    (sout.done /\ ~sout.err) =>
        LET receipts == sin.receipts
            expenses == sin.expenses
            out == sout.summaries
            positions == {pos \in (1..Len(receipts)) \X (1..MaxItems + 1) :
                             pos[2] <= Len(receipts[pos[1]].Items)}
            ItemAt(pos) == receipts[pos[1]].Items[pos[2]]
            CategoryOf(item) == IF item.Category = "" THEN Other ELSE item.Category
            ItemsOf(c) == {pos \in positions : CategoryOf(ItemAt(pos)) = c}
            EntriesOf(c) == {k \in 1..Len(expenses) : c # "" /\ expenses[k].Category = c}
            RECURSIVE ItemTotal(_)
            ItemTotal(S) ==
                IF S = {} THEN 0
                ELSE LET pos == CHOOSE x \in S : TRUE
                     IN ItemAt(pos).Price * ItemAt(pos).Quantity + ItemTotal(S \ {pos})
            RECURSIVE EntryTotal(_)
            EntryTotal(S) ==
                IF S = {} THEN 0
                ELSE LET k == CHOOSE x \in S : TRUE
                     IN expenses[k].Amount + EntryTotal(S \ {k})
        IN /\ \A c \in ItemCategories \cup ExpenseCategories :
                 (ItemsOf(c) # {} \/ EntriesOf(c) # {}) <=>
                     \E i \in 1..Len(out) : out[i].Category = c
           /\ \A i, j \in 1..Len(out) : out[i].Category = out[j].Category => i = j
           /\ \A i \in 1..Len(out) :
                 /\ out[i].Category \in (ItemCategories \cup ExpenseCategories) \ {""}
                 /\ out[i].Count = Cardinality(ItemsOf(out[i].Category))
                                     + Cardinality(EntriesOf(out[i].Category))
                 /\ out[i].Total = ItemTotal(ItemsOf(out[i].Category))
                                     + EntryTotal(EntriesOf(out[i].Category))

\* a category of both sources is merged; an item and an entry have no category
C21_Witness ==
    /\ sout.done /\ ~sout.err
    /\ Len(sin.receipts) = 2
    /\ \E r \in 1..2 : \E i \in 1..Len(sin.receipts[r].Items) :
          sin.receipts[r].Items[i].Category = "shokuhi"
    /\ \E r \in 1..2 : \E i \in 1..Len(sin.receipts[r].Items) :
          sin.receipts[r].Items[i].Category = ""
    /\ \E k \in 1..Len(sin.expenses) : sin.expenses[k].Category = "shokuhi"
    /\ \E k \in 1..Len(sin.expenses) : sin.expenses[k].Category = ""
    /\ Len(sout.summaries) = 2
    /\ \E i \in 1..2 : sout.summaries[i].Category = "shokuhi" /\ sout.summaries[i].Count = 2

\* C22: whenever the text decodes, parseReceiptJSON succeeds and the Items of
\* its receipt are exactly the decoded items with a non-empty name, in their
\* original relative order, with Name, Quantity and Price copied unchanged and
\* ReceiptID equal to the receipt id; decoded items without a name are dropped
\* and cause no error.
C22_ItemFilter ==
    (pout.done /\ Unmarshal(CleanJSON(pin)).ok) =>
        LET decoded == Decoded(pin).items
            items == pout.receipt.Items
            named == {k \in 1..Len(decoded) : decoded[k].name # ""}
            \* position among the decoded items of the i-th one that has a name
            Nth(i) == CHOOSE k \in named : Cardinality({j \in named : j < k}) = i - 1
        IN /\ pout.ok
           /\ Len(items) = Cardinality(named)
           /\ \A i \in 1..Len(items) :
                 /\ items[i].Name = decoded[Nth(i)].name
                 /\ items[i].Quantity = decoded[Nth(i)].quantity
                 /\ items[i].Price = decoded[Nth(i)].price
                 /\ items[i].ReceiptID = pout.receipt.ID
                 /\ items[i].Name # ""

\* of two decoded items the second has no name; the first is kept as decoded
C22_Witness ==
    /\ pout.done /\ pout.ok
    /\ Len(Decoded(pin).items) = 2
    /\ Decoded(pin).items[1] = Item("milk", 0 - 1, 2)
    /\ Decoded(pin).items[2].name = ""
    /\ Len(pout.receipt.Items) = 1
    /\ pout.receipt.Items[1].Quantity = 0 - 1
    /\ pout.receipt.Items[1].Price = 2

\* BunReceiptRepository.FindAll: the stored receipts with their items, the
\* latest first
RECURSIVE FindAllFrom(_)
FindAllFrom(rows) ==
    IF rows = {} THEN <<>>
    ELSE LET row == CHOOSE x \in rows : \A y \in rows : x.call >= y.call
         IN <<toEntity(row, {it \in dbItems : it.receipt_id = row.id})>>
                \o FindAllFrom(rows \ {row})

FindAll == FindAllFrom(dbReceipts)

\* C23: after Create(r) succeeded, FindByID(r.ID) and FindAll return a receipt
\* whose items have the same id, name, quantity, price and Category as r, so
\* that GetCategorySummary over the store has a bucket for the category the
\* classifier assigned to each ingested item.
C23_RoundTripKeepsCategories ==
    \A p \in Procs :
        (proc[p].pc = "done" /\ proc[p].status = "ok" /\ ~proc[p].existing) =>
            LET r == proc[p].receipt
                row == CHOOSE x \in dbReceipts : x.id = r.ID
                found == toEntity(row, {it \in dbItems : it.receipt_id = r.ID})
                summaryMap == SummaryMap(FindAll, <<>>)
            IN /\ \E x \in dbReceipts : x.id = r.ID
               /\ found.Items = r.Items
               /\ \E k \in 1..Len(FindAll) : FindAll[k].ID = r.ID /\ FindAll[k].Items = r.Items
               /\ \A i \in 1..Len(r.Items) :
                     r.Items[i].Category # "" => r.Items[i].Category \in DOMAIN summaryMap

\* C24: when an invocation for an image has stored receipt r and returned it,
\* a later invocation for the same image returns a receipt equal to r in id,
\* store name, total amount and item list (ids, names, quantities, prices and
\* categories).
C24_RepeatReturnsSameContent ==
    \A p, q \in Procs :
        (/\ proc[p].pc = "done" /\ proc[p].status = "ok" /\ ~proc[p].existing
         /\ proc[q].pc = "done" /\ proc[q].status = "ok"
         /\ proc[q].imageData = proc[p].imageData
         /\ proc[q].call > proc[p].call) =>
            /\ proc[q].receipt.ID = proc[p].receipt.ID
            /\ proc[q].receipt.StoreName = proc[p].receipt.StoreName
            /\ proc[q].receipt.TotalAmount = proc[p].receipt.TotalAmount
            /\ proc[q].receipt.Items = proc[p].receipt.Items

\* C25: when the store already holds the receipt of an image, a repeat
\* submission of that image returns the stored receipt, also when the cache
\* has no entry for the image and the recognition capability fails: it never
\* ends with the error of the recognition capability.
C25_RetrySafeUnderProviderFailure ==
    \A q \in Procs :
        (/\ proc[q].pc = "done"
         /\ \E row \in dbReceipts : row.image = proc[q].imageData /\ row.call < proc[q].call) =>
            proc[q].errAt # "recognize"

ReceiptIsValid(r) == r.StoreName # "" /\ r.TotalAmount >= 0

\* ReceiptItem.IsValid
ReceiptItemIsValid(ri) == ri.Name # "" /\ ri.Quantity > 0 /\ ri.Price >= 0

\* C27: every receipt that ProcessReceiptImage passes to Create satisfies
\* Receipt.IsValid and each of its items satisfies ReceiptItem.IsValid,
\* whatever decodable text the recognition capability returned.
C27_PersistedDataValid ==
    \A p \in Procs :
        (proc[p].pc \in {"create", "insertItems", "commit"}
            \/ (proc[p].created = 1 /\ proc[p].status = "ok")) =>
            /\ ReceiptIsValid(proc[p].receipt)
            /\ \A i \in 1..Len(proc[p].receipt.Items) :
                  ReceiptItemIsValid(proc[p].receipt.Items[i])

\* C28: every category that categorizeReceiptItems assigns to an item is a
\* member of the fixed vocabulary, whatever text the classification
\* capability returned.
C28_ClosedVocabulary ==
    (cout.done /\ cout.called /\ ~cout.err) =>
        \A i \in 1..Len(cout.receipt.Items) : cout.receipt.Items[i].Category \in Vocabulary

\* C29: whatever requests with the same image bytes HandleReceiptAnalyze
\* handles (cache absent, failing or expired in between), the store holds at
\* most one receipt of that image; and a request answered from the cache has
\* called neither the recognition capability nor Create.
C29_VisionEndpointNoDuplicate ==
    /\ \A img \in Images : Cardinality({r \in dbReceipts : r.image = img}) <= 1
    /\ \A p \in Procs :
          proc[p].response = "HIT" =>
              proc[p].recognized = 0 /\ proc[p].created = 0 /\ WroteNothing(p)

\* what holds of Run at every moment, apart from the order of Start and Shutdown
RunOrderly ==
    /\ app.pc # "new" => app.srv # "none"
    /\ app.startCalled <=> app.srv \in {"serving", "exited"}
    /\ app.pc = "returned" =>
          \/ /\ app.result = "serverFailed"
             /\ app.listenErr = "error"
             /\ ~app.shutdownCalled /\ ~app.closeCalled
          \/ /\ app.result \in {"nil", "shutdownFailed", "closeFailed"}
             /\ app.received \in Signals
             /\ app.shutdownCalled
    /\ app.result = "shutdownFailed" => ~app.closeCalled
    /\ app.shutdownCalled => app.received \in Signals
    /\ app.closeCalled => app.shutdownCalled /\ app.shutdownOk
    /\ app.pc = "close" => app.shutdownOk

\* C30: Run starts the server in a goroutine and returns only when the server
\* reported an error other than ErrServerClosed (that error is returned, no
\* shutdown) or a SIGINT/SIGTERM arrived (server Shutdown first, the container
\* closed only after Shutdown succeeded); after a signal Run eventually
\* returns; and Shutdown is never called before Start.
C30_RunLifecycle ==
    /\ [](RunOrderly /\ (app.shutdownCalled => app.startCalled))
    /\ (app.quit # <<>>) ~> (app.pc = "returned")

\* C30 as amended: as above, but Shutdown is only known to come after the go
\* statement that starts the server goroutine, not after that goroutine's
\* call of Start.
C30_RunLifecycleAmended ==
    /\ [](RunOrderly /\ (app.shutdownCalled => app.srv # "none"))
    /\ (app.quit # <<>>) ~> (app.pc = "returned")

\* Run returned nil after a SIGTERM: the server was serving, was shut down and
\* the container closed
C30_Witness ==
    /\ app.pc = "returned" /\ app.result = "nil"
    /\ app.received = "SIGTERM"
    /\ app.startCalled /\ app.shutdownCalled /\ app.shutdownOk /\ app.closeCalled
    /\ app.listenErr = "closed"

====
